---- MODULE Spec2Model ----
(***************************************************************************)
(* The fatal-event pipeline of the FTA scripts: fetch, filter by agency,   *)
(* normalise coordinates and dates, select fatal incidents, aggregate and  *)
(* report.  Four scripts share the pipeline with small variations:         *)
(*   "deadly"   src/fta_deadly_events_map.py                               *)
(*   "basemap"  src/fta_nyc_basemap.py                                     *)
(*   "slider"   src/fta_nyc_time_slider_map.py                             *)
(*   "analysis" src/fta_safety_analysis.py                                 *)
(* Text is a sequence of one-character strings, so that upper-casing,      *)
(* substring search and parsing are computed, not assumed.  Coordinates    *)
(* are fixed-point integers in units of 1/Scale degree.                    *)
(***************************************************************************)
EXTENDS Integers, Sequences, FiniteSets, TLC

(***************************************************************************)
(* Cell values of a data frame.                                            *)
(***************************************************************************)
\* None / NaN / NaT: what pandas' notna() rejects
Null == [k |-> "null"]
\* a text cell
Str(s) == [k |-> "str", s |-> s]
\* a numeric cell
Num(n) == [k |-> "num", n |-> n]
\* a timestamp cell (calendar date)
DateV(y, m, d) == [k |-> "date", y |-> y, m |-> m, d |-> d]

notna(v) == v.k # "null"

(***************************************************************************)
(* Text helpers.                                                           *)
(***************************************************************************)
LowerCase == <<"a", "b", "c", "d", "e", "f", "g", "h", "i", "j", "k", "l", "m", "n", "o", "p", "q", "r", "s", "t", "u", "v", "w", "x", "y", "z">>
UpperCase == <<"A", "B", "C", "D", "E", "F", "G", "H", "I", "J", "K", "L", "M", "N", "O", "P", "Q", "R", "S", "T", "U", "V", "W", "X", "Y", "Z">>
Digits == <<"0", "1", "2", "3", "4", "5", "6", "7", "8", "9">>

\* str.upper() on one character
UpperOf == [c \in {LowerCase[i] : i \in 1..Len(LowerCase)} |->
              UpperCase[CHOOSE i \in 1..Len(LowerCase) : LowerCase[i] = c]]
UpperChar(c) == IF c \in DOMAIN UpperOf THEN UpperOf[c] ELSE c

\* str.upper() on a text
upper(s) == [i \in 1..Len(s) |-> UpperChar(s[i])]

\* str.contains(k) for a pattern without regex metacharacters: k occurs in s
contains(s, k) ==
  \E i \in 0..(Len(s) - Len(k)) : \A j \in 1..Len(k) : s[i + j] = k[j]

\* '|'.join(keywords) as a regular expression: any keyword occurs
contains_any(s, keywords) ==
  \E j \in 1..Len(keywords) : contains(s, keywords[j])

\* position of a character in the collating order of the texts used here
Alphabet == <<" ", "-", ".">> \o Digits \o UpperCase \o LowerCase
ord(c) == CHOOSE i \in 1..Len(Alphabet) : Alphabet[i] = c

\* s < t in Python's string order
RECURSIVE str_less(_, _)
str_less(s, t) ==
  IF t = <<>> THEN FALSE
  ELSE IF s = <<>> THEN TRUE
  ELSE IF s[1] = t[1] THEN str_less(Tail(s), Tail(t))
  ELSE ord(s[1]) < ord(t[1])

(***************************************************************************)
(* Agency Filter.                                                          *)
(***************************************************************************)
ny_keywords == << <<"N", "E", "W", " ", "Y", "O", "R", "K">>, <<"N", "Y", "C">>, <<"M", "T", "A">>, <<"M", "E", "T", "R", "O", "P", "O", "L", "I", "T", "A", "N", " ", "T", "R", "A", "N", "S", "P", "O", "R", "T", "A", "T", "I", "O", "N">> >>

\* a filter that forgets str.upper(): the match is case-sensitive
keyword_match_case_sensitive(v) ==
  IF v.k = "str" THEN contains_any(v.s, ny_keywords) ELSE FALSE

\* a filter with na=True: a missing agency name counts as a match
keyword_match_na_true(v) ==
  IF v.k = "str" THEN contains_any(upper(v.s), ny_keywords) ELSE TRUE

\* df[col].str.upper().str.contains('|'.join(ny_keywords), na=False), one cell
keyword_match(v) ==
  IF v.k = "str" THEN contains_any(upper(v.s), ny_keywords) ELSE FALSE

\* df[mask]: the rows whose mask is true, in order
select(df, keep(_)) == SelectSeq(df, keep)

\* str.lower() on one character
LowerOf == [c \in {UpperCase[i] : i \in 1..Len(UpperCase)} |->
              LowerCase[CHOOSE i \in 1..Len(UpperCase) : UpperCase[i] = c]]
LowerChar(c) == IF c \in DOMAIN LowerOf THEN LowerOf[c] ELSE c

\* str.lower() on a text
lower(s) == [i \in 1..Len(s) |-> LowerChar(s[i])]

\* the column of a frame that a column name addresses; in the analysis
\* script's data sets the agency column may be named agency_name
cell(row, col) ==
  CASE col = <<"a", "g", "e", "n", "c", "y">> -> row.agency
    [] col = <<"a", "g", "e", "n", "c", "y", "_", "n", "a", "m", "e">> -> row.agency
    [] col = <<"s", "t", "a", "t", "e">> -> row.state
    [] col = <<"e", "v", "e", "n", "t", "_", "t", "y", "p", "e">> -> row.event_type
    [] col = <<"l", "o", "c", "a", "t", "i", "o", "n", "_", "t", "y", "p", "e">> -> row.location_type
    [] col = <<"i", "n", "c", "i", "d", "e", "n", "t", "_", "d", "a", "t", "e">> -> row.incident_date
    [] col = <<"l", "a", "t", "i", "t", "u", "d", "e">> -> row.latitude
    [] col = <<"l", "o", "n", "g", "i", "t", "u", "d", "e">> -> row.longitude
    [] col = <<"t", "o", "t", "a", "l", "_", "f", "a", "t", "a", "l", "i", "t", "i", "e", "s">> -> row.total_fatalities
    [] col = <<"t", "o", "t", "a", "l", "_", "i", "n", "j", "u", "r", "i", "e", "s">> -> row.total_injuries
    [] col = <<"a", "p", "p", "r", "o", "x", "i", "m", "a", "t", "e", "_", "a", "d", "d", "r", "e", "s", "s">> -> row.approximate_address

\* 'name' in df.columns
has_column(columns, name) == \E i \in 1..Len(columns) : columns[i] = name

\* .astype(str) on a text column: a missing value becomes the text "nan"
astype_str(v) ==
  CASE v.k = "str" -> v.s
    [] v.k = "null" -> <<"n", "a", "n">>

\* filter_new_york_data of the three map scripts
filter_new_york_data(df) ==
  select(df, LAMBDA r : keyword_match(r.agency))

\* df['state'].str.upper() == 'NY', one cell
state_is_ny(v) == IF v.k = "str" THEN upper(v.s) = <<"N", "Y">> ELSE FALSE

\* [col for col in df.columns if 'location' in col.lower() or ...]
location_cols(columns) ==
  SelectSeq(columns, LAMBDA col :
    \/ contains(lower(col), <<"l", "o", "c", "a", "t", "i", "o", "n">>)
    \/ contains(lower(col), <<"c", "i", "t", "y">>)
    \/ contains(lower(col), <<"s", "t", "a", "t", "e">>)
    \/ contains(lower(col), <<"a", "g", "e", "n", "c", "y">>))

fallback_keywords == << <<"N", "E", "W", " ", "Y", "O", "R", "K">>, <<"N", "Y">>, <<"N", "Y", "C">>, <<"M", "T", "A">> >>

\* a filter that looks for the agency_name column before the state column
analysis_filter_agency_name_first(columns, df) ==
  IF has_column(columns, <<"a", "g", "e", "n", "c", "y", "_", "n", "a", "m", "e">>)
    THEN select(df, LAMBDA r : keyword_match(cell(r, <<"a", "g", "e", "n", "c", "y", "_", "n", "a", "m", "e">>)))
  ELSE IF has_column(columns, <<"s", "t", "a", "t", "e">>)
    THEN select(df, LAMBDA r : state_is_ny(r.state))
  ELSE IF location_cols(columns) # <<>>
    THEN select(df, LAMBDA r :
           contains_any(upper(astype_str(cell(r, location_cols(columns)[1]))),
                        fallback_keywords))
  ELSE df

\* filter_new_york_data of the analysis script
analysis_filter_new_york_data(columns, df) ==
  IF has_column(columns, <<"s", "t", "a", "t", "e">>)
    THEN select(df, LAMBDA r : state_is_ny(r.state))
  ELSE IF has_column(columns, <<"a", "g", "e", "n", "c", "y", "_", "n", "a", "m", "e">>)
    THEN select(df, LAMBDA r : keyword_match(cell(r, <<"a", "g", "e", "n", "c", "y", "_", "n", "a", "m", "e">>)))
  ELSE IF location_cols(columns) # <<>>
    THEN select(df, LAMBDA r :
           contains_any(upper(astype_str(cell(r, location_cols(columns)[1]))),
                        fallback_keywords))
  ELSE df

(***************************************************************************)
(* Event Normalizer and Fatality Selector.                                 *)
(***************************************************************************)
\* fixed-point resolution: coordinates are integers in units of 1/Scale degree
FracDigits == 4
Scale == 10 ^ FracDigits

is_digit(c) == \E i \in 1..Len(Digits) : Digits[i] = c
digit_val(c) == (CHOOSE i \in 1..Len(Digits) : Digits[i] = c) - 1
all_digits(s) == \A i \in 1..Len(s) : is_digit(s[i])

\* the number a digit string denotes
RECURSIVE digits_val(_)
digits_val(s) ==
  IF s = <<>> THEN 0
  ELSE 10 * digits_val(SubSeq(s, 1, Len(s) - 1)) + digit_val(s[Len(s)])

\* float(text) for plain decimal notation: Null when the text is no number
parse_decimal(s) ==
  LET neg == s # <<>> /\ s[1] = "-"
      body == IF neg THEN Tail(s) ELSE s
      dots == {i \in 1..Len(body) : body[i] = "."}
      dot == IF dots = {} THEN Len(body) + 1 ELSE CHOOSE i \in dots : \A j \in dots : i <= j
      ip == SubSeq(body, 1, dot - 1)
      fp == SubSeq(body, dot + 1, Len(body))
  IN IF /\ all_digits(ip) /\ all_digits(fp)
        /\ Len(ip) + Len(fp) > 0
        /\ Len(fp) <= FracDigits
       THEN Num((IF neg THEN -1 ELSE 1) *
                (digits_val(ip) * Scale + digits_val(fp) * 10 ^ (FracDigits - Len(fp))))
       ELSE Null

\* a conversion that puts 0 where the text is no number
to_numeric_fill_zero(v) ==
  CASE v.k = "num" -> v
    [] v.k = "str" -> (IF parse_decimal(v.s) = Null THEN Num(0) ELSE parse_decimal(v.s))
    [] OTHER -> Null

\* pd.to_numeric(cell, errors='coerce')
to_numeric(v) ==
  CASE v.k = "num" -> v
    [] v.k = "str" -> parse_decimal(v.s)
    [] OTHER -> Null

is_leap(y) == (y % 4 = 0 /\ y % 100 # 0) \/ y % 400 = 0
days_in_month(y, m) ==
  IF m = 2 THEN (IF is_leap(y) THEN 29 ELSE 28)
  ELSE IF m \in {4, 6, 9, 11} THEN 30 ELSE 31

\* the timestamp an ISO date text YYYY-MM-DD denotes: Null when it is none
parse_date(s) ==
  IF /\ Len(s) = 10 /\ s[5] = "-" /\ s[8] = "-"
     /\ all_digits(SubSeq(s, 1, 4)) /\ all_digits(SubSeq(s, 6, 7))
     /\ all_digits(SubSeq(s, 9, 10))
    THEN LET y == digits_val(SubSeq(s, 1, 4))
             m == digits_val(SubSeq(s, 6, 7))
             d == digits_val(SubSeq(s, 9, 10))
         IN IF m \in 1..12 /\ d >= 1 /\ d <= days_in_month(y, m)
              THEN DateV(y, m, d) ELSE Null
    ELSE Null

\* a conversion that leaves a text that is no date as it is
to_datetime_keep_text(v) ==
  CASE v.k = "date" -> v
    [] v.k = "str" -> (IF parse_date(v.s) = Null THEN v ELSE parse_date(v.s))
    [] OTHER -> Null

\* pd.to_datetime(cell, errors='coerce')
to_datetime(v) ==
  CASE v.k = "date" -> v
    [] v.k = "str" -> parse_date(v.s)
    [] OTHER -> Null

\* the approximate NYC bounds, in units of 1/Scale degree
NYC_LAT_MIN == 404000
NYC_LAT_MAX == 410000
NYC_LON_MIN == -743000
NYC_LON_MAX == -737000

\* a comparison with NaN is false
ge(v, n) == v.k = "num" /\ v.n >= n
le(v, n) == v.k = "num" /\ v.n <= n
gt(v, n) == v.k = "num" /\ v.n > n

\* a selector with >= 0 for > 0
fatality_selector_ge(df) == select(df, LAMBDA r : ge(r.total_fatalities, 0))

\* a selector that slices off the first selected row (.iloc[1:])
fatality_selector_skip_first(df) ==
  LET sel == select(df, LAMBDA r : gt(r.total_fatalities, 0))
  IN SubSeq(sel, 2, Len(sel))

\* a selector that tests only that the fatality count is present
fatality_selector_notna(df) == select(df, LAMBDA r : notna(r.total_fatalities))

\* df[df['total_fatalities'] > 0]: the Fatality Selector
fatality_selector(df) == select(df, LAMBDA r : gt(r.total_fatalities, 0))

\* fatal_df[fatal_df['latitude'].notna() & fatal_df['longitude'].notna()]
with_coordinates(df) ==
  select(df, LAMBDA r : notna(r.latitude) /\ notna(r.longitude))

\* fatal_df['latitude'] = pd.to_numeric(...); fatal_df['longitude'] = ...
coerce_coordinates(df) ==
  [i \in 1..Len(df) |->
     [df[i] EXCEPT !.latitude = to_numeric(@), !.longitude = to_numeric(@)]]

\* fatal_df['incident_date'] = pd.to_datetime(..., errors='coerce')
coerce_dates(df) ==
  [i \in 1..Len(df) |-> [df[i] EXCEPT !.incident_date = to_datetime(@)]]

in_nyc_box(r) ==
  /\ ge(r.latitude, NYC_LAT_MIN) /\ le(r.latitude, NYC_LAT_MAX)
  /\ ge(r.longitude, NYC_LON_MIN) /\ le(r.longitude, NYC_LON_MAX)

\* prepare_fatal_events of the deadly-events script, after the selector
deadly_normalize(fatal_df) ==
  with_coordinates(coerce_coordinates(with_coordinates(fatal_df)))

\* prepare_fatal_events of the basemap script, after the selector
basemap_normalize(fatal_df) ==
  select(coerce_coordinates(with_coordinates(fatal_df)),
         LAMBDA r : notna(r.latitude) /\ notna(r.longitude) /\ in_nyc_box(r))

\* prepare_fatal_events of the time-slider script, after the selector
slider_normalize(fatal_df) ==
  select(coerce_dates(coerce_coordinates(with_coordinates(fatal_df))),
         LAMBDA r : /\ notna(r.latitude) /\ notna(r.longitude)
                    /\ notna(r.incident_date) /\ in_nyc_box(r))

normalize(s, fatal_df) ==
  CASE s = "deadly" -> deadly_normalize(fatal_df)
    [] s = "basemap" -> basemap_normalize(fatal_df)
    [] s = "slider" -> slider_normalize(fatal_df)

\* prepare_fatal_events: the Fatality Selector, then the Normalizer
prepare_fatal_events(s, df) == normalize(s, fatality_selector(df))

(***************************************************************************)
(* Aggregator.                                                             *)
(***************************************************************************)
\* the elements of a set as a sequence in increasing order
sorted_keys(K, less(_, _)) ==
  [p \in 1..Cardinality(K) |->
     CHOOSE k \in K : Cardinality({k2 \in K : less(k2, k)}) = p - 1]

\* a stable sort of a sequence: equal elements keep their order
sort_by(s, less(_, _)) ==
  LET rank(t, i) == 1 + Cardinality({j \in 1..Len(t) :
                         less(t[j], t[i]) \/ (~less(t[i], t[j]) /\ j < i)})
      place(t) == [i \in 1..Len(t) |-> rank(t, i)]
      sorted(t, r) == [p \in 1..Len(t) |-> t[CHOOSE i \in 1..Len(t) : r[i] = p]]
      sort(t) == CHOOSE result \in {sorted(t, r) : r \in {place(t)}} : TRUE
  IN CHOOSE result \in {sort(t) : t \in {s}} : TRUE

\* Series.sum() of a numeric column, missing values skipped
RECURSIVE sum_fatalities(_)
sum_fatalities(df) ==
  IF df = <<>> THEN 0
  ELSE (IF df[1].total_fatalities.k = "num" THEN df[1].total_fatalities.n ELSE 0)
       + sum_fatalities(Tail(df))

\* Series.round(3) on one cell: to the nearest 1/1000 degree, ties to even
round3(v) ==
  IF v.k # "num" THEN v
  ELSE LET q == Scale \div 1000
           a == IF v.n < 0 THEN -v.n ELSE v.n
           lo == a \div q
           rem == a % q
           up == 2 * rem > q \/ (2 * rem = q /\ lo % 2 = 1)
           r == (IF up THEN lo + 1 ELSE lo) * q
       IN Num(IF v.n < 0 THEN -r ELSE r)

\* df['lat_rounded'] = df['latitude'].round(3); df['lon_rounded'] = ...
add_rounded(df) ==
  [i \in 1..Len(df) |->
     [df[i] EXCEPT !.lat_rounded = round3(df[i].latitude),
                   !.lon_rounded = round3(df[i].longitude)]]

pair_less(a, b) == a[1] < b[1] \/ (a[1] = b[1] /\ a[2] < b[2])

\* the non-null text values of a column of a group, in row order
non_null_texts(x) == SelectSeq(x, LAMBDA v : v.k = "str")

\* a mode that lists the most frequent values in order of first occurrence
mode_first_encountered(x) ==
  LET vals == non_null_texts(x)
      V == {vals[i].s : i \in 1..Len(vals)}
      count(t) == Cardinality({i \in 1..Len(vals) : vals[i].s = t})
      top == {t \in V : \A u \in V : count(u) <= count(t)}
      first(t) == CHOOSE i \in 1..Len(vals) :
                    vals[i].s = t /\ \A j \in 1..(i - 1) : vals[j].s # t
  IN sorted_keys(top, LAMBDA a, b : first(a) < first(b))

\* Series.mode(): the most frequent non-null values, in sorted order
mode(x) ==
  LET vals == non_null_texts(x)
      V == {vals[i].s : i \in 1..Len(vals)}
      count(t) == Cardinality({i \in 1..Len(vals) : vals[i].s = t})
      top == {t \in V : \A u \in V : count(u) <= count(t)}
  IN sorted_keys(top, str_less)

KeyError == [k |-> "error"]

\* lambda x: x.mode()[0] if len(x) > 0 else 'Unknown'
representative(x) ==
  IF Len(x) > 0
    THEN (IF mode(x) = <<>> THEN KeyError ELSE Str(mode(x)[1]))
    ELSE Str(<<"U", "n", "k", "n", "o", "w", "n">>)

\* Series.count(): the non-null cells
count_notna(x) == Len(SelectSeq(x, notna))

column(df, f(_)) == [i \in 1..Len(df) |-> f(df[i])]

\* df.groupby(['lat_rounded', 'lon_rounded']).agg({...}): one bucket per
\* rounded coordinate pair, in key order
group_by_location(df) ==
  LET key(r) == <<r.lat_rounded.n, r.lon_rounded.n>>
      K == {key(df[i]) : i \in 1..Len(df)}
      keys == sorted_keys(K, pair_less)
      grp(k) == SelectSeq(df, LAMBDA r : key(r) = k)
  IN [p \in 1..Len(keys) |->
       [key |-> keys[p],
        total_fatalities |-> sum_fatalities(grp(keys[p])),
        num_incidents |-> count_notna(column(grp(keys[p]), LAMBDA r : r.incident_date)),
        event_type |-> representative(column(grp(keys[p]), LAMBDA r : r.event_type)),
        location_type |-> representative(column(grp(keys[p]), LAMBDA r : r.location_type))]]

\* an aggregation function raised inside agg()
agg_raised(buckets) ==
  \E p \in 1..Len(buckets) :
    buckets[p].event_type = KeyError \/ buckets[p].location_type = KeyError

\* a sort in ascending order of the fatality sum
sort_by_fatalities_asc(buckets) ==
  sort_by(buckets, LAMBDA a, b : a.total_fatalities < b.total_fatalities)

\* DataFrame.sort_values('total_fatalities', ascending=False)
sort_by_fatalities_desc(buckets) ==
  sort_by(buckets, LAMBDA a, b : a.total_fatalities > b.total_fatalities)

\* df.groupby('event_type').agg({'total_fatalities': 'sum', 'event_type': 'count'}):
\* one bucket per non-null event type, in key order; null keys are dropped
group_by_event_type(df) ==
  LET rows == SelectSeq(df, LAMBDA r : r.event_type.k = "str")
      K == {rows[i].event_type.s : i \in 1..Len(rows)}
      keys == sorted_keys(K, str_less)
      grp(k) == SelectSeq(rows, LAMBDA r : r.event_type.s = k)
  IN [p \in 1..Len(keys) |->
       [key |-> keys[p],
        total_fatalities |-> sum_fatalities(grp(keys[p])),
        incidents |-> Len(grp(keys[p]))]]

\* df['year'], df['month'], df['year_month'] from the parsed incident date
add_periods(df) ==
  [i \in 1..Len(df) |->
     LET d == df[i].incident_date
     IN [df[i] EXCEPT
           !.year = IF d.k = "date" THEN Num(d.y) ELSE Null,
           !.month = IF d.k = "date" THEN Num(d.m) ELSE Null,
           !.year_month = IF d.k = "date" THEN [k |-> "period", y |-> d.y, m |-> d.m]
                          ELSE Null]]

\* df.groupby('year').agg({'total_fatalities': 'sum', 'year': 'count'})
group_by_year(df) ==
  LET rows == SelectSeq(df, LAMBDA r : r.year.k = "num")
      K == {rows[i].year.n : i \in 1..Len(rows)}
      keys == sorted_keys(K, LAMBDA a, b : a < b)
      grp(k) == SelectSeq(rows, LAMBDA r : r.year.n = k)
  IN [p \in 1..Len(keys) |->
       [key |-> keys[p],
        total_fatalities |-> sum_fatalities(grp(keys[p])),
        incidents |-> Len(grp(keys[p]))]]

\* df.groupby('year_month').agg({'total_fatalities': 'sum', 'year_month': 'count'})
group_by_year_month(df) ==
  LET rows == SelectSeq(df, LAMBDA r : r.year_month.k = "period")
      key(r) == <<r.year_month.y, r.year_month.m>>
      K == {key(rows[i]) : i \in 1..Len(rows)}
      keys == sorted_keys(K, pair_less)
      grp(k) == SelectSeq(rows, LAMBDA r : key(r) = k)
  IN [p \in 1..Len(keys) |->
       [key |-> keys[p],
        total_fatalities |-> sum_fatalities(grp(keys[p])),
        incidents |-> Len(grp(keys[p]))]]

\* DataFrame.head(n)
head(s, n) == SubSeq(s, 1, IF Len(s) < n THEN Len(s) ELSE n)

\* df.nlargest(n, 'total_fatalities'): the n rows of most fatalities, ties in row order
nlargest(df, n) ==
  head(sort_by(df, LAMBDA a, b : a.total_fatalities.n > b.total_fatalities.n), n)

(***************************************************************************)
(* Input data.                                                             *)
(***************************************************************************)
\* the number of records a fetched data set holds at most
MaxRows == 3

MapColumns ==
  << <<"a", "g", "e", "n", "c", "y">>, <<"e", "v", "e", "n", "t", "_", "t", "y", "p", "e">>, <<"l", "o", "c", "a", "t", "i", "o", "n", "_", "t", "y", "p", "e">>, <<"i", "n", "c", "i", "d", "e", "n", "t", "_", "d", "a", "t", "e">>, <<"l", "a", "t", "i", "t", "u", "d", "e">>,
     <<"l", "o", "n", "g", "i", "t", "u", "d", "e">>, <<"t", "o", "t", "a", "l", "_", "f", "a", "t", "a", "l", "i", "t", "i", "e", "s">>, <<"t", "o", "t", "a", "l", "_", "i", "n", "j", "u", "r", "i", "e", "s">>, <<"a", "p", "p", "r", "o", "x", "i", "m", "a", "t", "e", "_", "a", "d", "d", "r", "e", "s", "s">> >>

Row1 ==
  [agency |-> Str(<<"M", "T", "A", " ", "N", "Y", "C", " ", "T", "R", "A", "N", "S", "I", "T">>), state |-> Null,
   event_type |-> Null, location_type |-> Null,
   incident_date |-> Str(<<"2", "0", "1", "9", "-", "0", "3", "-", "0", "1">>),
   latitude |-> Str(<<"4", "0", ".", "7", "5">>), longitude |-> Str(<<"-", "7", "3", ".", "9", "8">>),
   total_fatalities |-> Num(2), total_injuries |-> Num(0),
   approximate_address |-> Null,
   lat_rounded |-> Null, lon_rounded |-> Null,
   year |-> Null, month |-> Null, year_month |-> Null]

Row2 ==
  [Row1 EXCEPT !.agency = Str(<<"L", "A", " ", "M", "E", "T", "R", "O">>),
               !.incident_date = Str(<<"2", "0", "1", "9", "-", "0", "4", "-", "0", "1">>),
               !.latitude = Str(<<"3", "4", ".", "0">>), !.longitude = Str(<<"-", "1", "1", "8", ".", "2">>),
               !.total_fatalities = Num(1)]

Row3 ==
  [Row1 EXCEPT !.agency = Str(<<"m", "t", "a", " ", "b", "u", "s">>),
               !.event_type = Str(<<"S", "u", "i", "c", "i", "d", "e">>), !.location_type = Str(<<"S", "t", "a", "t", "i", "o", "n">>),
               !.incident_date = Str(<<"2", "0", "1", "9", "-", "0", "3", "-", "1", "5">>),
               !.total_fatalities = Num(1), !.total_injuries = Num(1),
               !.approximate_address = Str(<<"M", "a", "i", "n", " ", "S", "t">>)]

Row4 ==
  [Row3 EXCEPT !.agency = Str(<<"N", "e", "w", " ", "Y", "o", "r", "k", " ", "C", "i", "t", "y", " ", "T", "r", "a", "n", "s", "i", "t">>),
               !.event_type = Str(<<"H", "o", "m", "i", "c", "i", "d", "e">>), !.location_type = Str(<<"P", "l", "a", "t", "f", "o", "r", "m">>),
               !.incident_date = Str(<<"2", "0", "2", "0", "-", "0", "1", "-", "1", "0">>),
               !.latitude = Str(<<"4", "0", ".", "7", "5", "0", "4">>), !.longitude = Str(<<"-", "7", "3", ".", "9", "8", "0", "1">>)]

Row5 == [Row3 EXCEPT !.agency = Null]
Row6 == [Row3 EXCEPT !.latitude = Str(<<"a", "b", "c">>)]
Row7 == [Row3 EXCEPT !.latitude = Str(<<"9", "5", ".", "0">>)]
Row8 == [Row3 EXCEPT !.total_fatalities = Num(0)]
Row9 == [Row3 EXCEPT !.incident_date = Str(<<"b", "a", "d", " ", "d", "a", "t", "e">>), !.total_fatalities = Num(2)]
Row10 ==
  [Row3 EXCEPT !.agency = Str(<<"M", "e", "t", "r", "o", "p", "o", "l", "i", "t", "a", "n", " ", "T", "r", "a", "n", "s", "p", "o", "r", "t", "a", "t", "i", "o", "n", " ", "A", "u", "t", "h", "o", "r", "i", "t", "y">>),
               !.incident_date = Str(<<"2", "0", "1", "8", "-", "1", "2", "-", "3", "1">>),
               !.latitude = Str(<<"4", "1", ".", "0">>), !.longitude = Str(<<"-", "7", "3", ".", "7">>),
               !.total_fatalities = Num(3)]

Row11 == [Row4 EXCEPT !.longitude = Str(<<"x">>)]

MapRows == {Row1, Row2, Row3, Row4, Row5, Row6, Row7, Row8, Row9, Row10, Row11}

ARow1 == [Row1 EXCEPT !.state = Str(<<"N", "Y">>)]
ARow2 == [Row2 EXCEPT !.state = Str(<<"C", "A">>)]
ARow3 == [Row3 EXCEPT !.agency = Null, !.state = Str(<<"n", "y">>)]
ARow4 == [Row3 EXCEPT !.agency = Str(<<"A", "l", "b", "a", "n", "y", " ", "C", "D", "T", "A">>), !.state = Null]
ARow5 == [Row9 EXCEPT !.state = Str(<<"N", "Y">>), !.total_fatalities = Num(0)]

AnalysisRows == {ARow1, ARow2, ARow3, ARow4, ARow5}

AnalysisSchemas ==
  { << <<"s", "t", "a", "t", "e">> >> \o [i \in 1..Len(MapColumns) |->
         IF MapColumns[i] = <<"a", "g", "e", "n", "c", "y">> THEN <<"a", "g", "e", "n", "c", "y", "_", "n", "a", "m", "e">> ELSE MapColumns[i]],
    [i \in 1..Len(MapColumns) |->
         IF MapColumns[i] = <<"a", "g", "e", "n", "c", "y">> THEN <<"a", "g", "e", "n", "c", "y", "_", "n", "a", "m", "e">> ELSE MapColumns[i]],
    MapColumns,
    SubSeq(MapColumns, 3, 3) \o SubSeq(MapColumns, 1, 2) \o SubSeq(MapColumns, 4, Len(MapColumns)),
    SubSeq(MapColumns, 2, 2) \o SubSeq(MapColumns, 4, Len(MapColumns)) }

Scripts == {"deadly", "basemap", "slider", "analysis"}

RowsOf(s) == IF s = "analysis" THEN AnalysisRows ELSE MapRows
SchemasOf(s) == IF s = "analysis" THEN AnalysisSchemas ELSE {MapColumns}

\* the data sets a fetch may return: 1..MaxRows records
Datasets(s) == UNION {[1..n -> RowsOf(s)] : n \in 1..MaxRows}

\* the number of records a data set of many locations holds at most
MaxLocations == 17

\* the text of the latitude 40.7pq, p the tens and q the units of n
location_latitude(n) ==
  <<"4", "0", ".", "7", Digits[(n \div 10) + 1], Digits[(n % 10) + 1]>>

\* record p of a data set of many locations: c records share a rounded
\* coordinate, the fatalities run through 1 + (a * p) % m, and for a = 3
\* every second record has no incident date
LocationRow(p, a, m, c) ==
  [Row3 EXCEPT !.latitude = Str(location_latitude((p + c - 1) \div c)),
               !.total_fatalities = Num(1 + ((a * p) % m)),
               !.event_type = IF p % 2 = 0 THEN Row4.event_type ELSE Row3.event_type,
               !.incident_date = IF a = 3 /\ p % 2 = 0 THEN Null ELSE Row3.incident_date]

\* the data sets of 1..MaxLocations records at different coordinates
LocationDatasets ==
  {[p \in 1..n |-> LocationRow(p, a, m, c)] :
     n \in 1..MaxLocations, a \in 1..3, m \in 2..4, c \in 1..2}

\* df['year'] = df['incident_date'].dt.year
add_year(df) ==
  [i \in 1..Len(df) |->
     [df[i] EXCEPT !.year = IF df[i].incident_date.k = "date"
                              THEN Num(df[i].incident_date.y) ELSE Null]]

\* df['year'].value_counts().sort_index(): incidents per non-null year
year_counts(df) ==
  LET b == group_by_year(df)
  IN [p \in 1..Len(b) |-> [key |-> b[p].key, incidents |-> b[p].incidents]]

\* location_fatalities.head(15)
TopLocations == 15

\* month_summary.head(10)
TopMonths == 10

\* a table as the user gets it: its heading and its rows, in order
listing(title, rows) == [title |-> title, rows |-> rows]

(***************************************************************************)
(* main() of each script, one step per call.                               *)
(***************************************************************************)
VARIABLES
  script,               \* which script runs
  pc,                   \* position in main()
  columns,              \* df.columns of the fetched data set
  df,                   \* the fetched data set
  ny_df,                \* the Agency Filter's output
  fatal_df,             \* the fatal events frame of prepare_fatal_events / main
  out,                  \* report sections printed and files written, in order
  log,                  \* logging records, in order
  err,                  \* the uncaught exception that ended the run, or "none"
  location_fatalities,  \* the by-coordinate table of print_deadliest_locations
  event_summary,        \* the by-event-type table
  year_summary,         \* the by-year table
  month_summary,        \* the by-year-month table
  listings              \* the tables printed or drawn, in order: title and rows

vars == <<script, pc, columns, df, ny_df, fatal_df, out, log, err,
          location_fatalities, event_summary, year_summary, month_summary,
          listings>>

tables == <<location_fatalities, event_summary, year_summary, month_summary,
            listings>>

Init ==
  /\ script \in Scripts
  /\ pc = "start"
  /\ columns = <<>>
  /\ df = <<>>
  /\ ny_df = <<>>
  /\ fatal_df = <<>>
  /\ out = <<>>
  /\ log = <<>>
  /\ err = "none"
  /\ location_fatalities = <<>>
  /\ event_summary = <<>>
  /\ year_summary = <<>>
  /\ month_summary = <<>>
  /\ listings = <<>>

\* a main() that goes on with an empty frame when the fetch failed
LoadData_proceeds_without_data ==
  /\ pc = "start"
  /\ \/ /\ log' = log \o <<"error: Failed to load data">>
        /\ pc' = "loaded"
        /\ UNCHANGED <<columns, df>>
     \/ \E cols \in SchemasOf(script), data \in Datasets(script) :
          /\ columns' = cols
          /\ df' = data
          /\ log' = log \o <<"info: Successfully loaded">>
          /\ pc' = "loaded"
  /\ UNCHANGED <<script, ny_df, fatal_df, out, err, tables>>

\* load_fta_data and main's check of its result
LoadData ==
  /\ pc = "start"
  /\ \/ /\ log' = log \o <<"error: Failed to load data",
                           "error: Cannot proceed without data">>
        /\ pc' = "done"
        /\ UNCHANGED <<columns, df>>
     \/ \E cols \in SchemasOf(script), data \in Datasets(script) :
          /\ columns' = cols
          /\ df' = data
          /\ log' = log \o <<"info: Successfully loaded">>
          /\ pc' = "loaded"
  /\ UNCHANGED <<script, ny_df, fatal_df, out, err, tables>>

\* load_fta_data and main's check of its result, on a data set of many locations
LoadLocationData ==
  /\ pc = "start"
  /\ \/ /\ log' = log \o <<"error: Failed to load data",
                           "error: Cannot proceed without data">>
        /\ pc' = "done"
        /\ UNCHANGED <<columns, df>>
     \/ \E data \in LocationDatasets :
          /\ columns' = MapColumns
          /\ df' = data
          /\ log' = log \o <<"info: Successfully loaded">>
          /\ pc' = "loaded"
  /\ UNCHANGED <<script, ny_df, fatal_df, out, err, tables>>

\* explore_dataset (analysis script)
ExploreDataset ==
  /\ script = "analysis" /\ pc = "loaded"
  /\ out' = out \o <<"DATASET OVERVIEW">>
  /\ pc' = "explored"
  /\ UNCHANGED <<script, columns, df, ny_df, fatal_df, log, err, tables>>

\* filter_new_york_data, and in the analysis script main's check of its result
FilterNewYorkData ==
  /\ pc = IF script = "analysis" THEN "explored" ELSE "loaded"
  /\ ny_df' = IF script = "analysis"
                THEN analysis_filter_new_york_data(columns, df)
                ELSE filter_new_york_data(df)
  /\ IF script = "analysis" /\ Len(ny_df') = 0
       THEN /\ log' = log \o <<"info: Found incidents in New York",
                               "warning: No New York data found">>
            /\ out' = out \o <<"Please review the dataset columns">>
            /\ pc' = "done"
       ELSE /\ log' = log \o <<"info: Found incidents in New York">>
            /\ out' = out
            /\ pc' = "filtered"
  /\ UNCHANGED <<script, columns, df, fatal_df, err, tables>>

\* prepare_fatal_events up to its first log record: the Fatality Selector
SelectFatalEvents ==
  /\ script # "analysis" /\ pc = "filtered"
  /\ fatal_df' = fatality_selector(ny_df)
  /\ log' = log \o <<"info: Found fatal incidents">>
  /\ pc' = "selected"
  /\ UNCHANGED <<script, columns, df, ny_df, out, err, tables>>

\* a main() without the check for an empty result of prepare_fatal_events
NormalizeEvents_no_empty_check ==
  /\ script # "analysis" /\ pc = "selected"
  /\ fatal_df' = normalize(script, fatal_df)
  /\ log' = log \o <<"info: Found fatal incidents with valid coordinates">>
  /\ pc' = "prepared"
  /\ UNCHANGED <<script, columns, df, ny_df, out, err, tables>>

\* the rest of prepare_fatal_events (the Normalizer) and main's check of its result
NormalizeEvents ==
  /\ script # "analysis" /\ pc = "selected"
  /\ fatal_df' = normalize(script, fatal_df)
  /\ IF Len(fatal_df') = 0
       THEN /\ log' = log \o <<"info: Found fatal incidents with valid coordinates",
                               "error: No fatal incidents with coordinates found">>
            /\ pc' = "done"
       ELSE /\ log' = log \o <<"info: Found fatal incidents with valid coordinates">>
            /\ pc' = "prepared"
  /\ UNCHANGED <<script, columns, df, ny_df, out, err, tables>>

\* print_deadliest_locations (deadly-events script)
PrintDeadliestLocations ==
  /\ script = "deadly" /\ pc = "prepared"
  /\ fatal_df' = add_rounded(fatal_df)
  /\ IF agg_raised(group_by_location(fatal_df'))
       THEN /\ out' = out \o <<"DEADLIEST LOCATIONS ANALYSIS">>
            /\ err' = "KeyError"
            /\ pc' = "done"
            /\ UNCHANGED <<location_fatalities, listings>>
       ELSE /\ location_fatalities' = sort_by_fatalities_desc(group_by_location(fatal_df'))
            /\ listings' = listings \o
                 <<listing("Top 15 Deadliest Locations",
                           head(location_fatalities', TopLocations))>>
            /\ out' = out \o <<"DEADLIEST LOCATIONS ANALYSIS",
                               "Top 15 Deadliest Locations",
                               "SINGLE DEADLIEST INCIDENTS">>
            /\ err' = err
            /\ pc' = "printed"
  /\ UNCHANGED <<script, columns, df, ny_df, log, event_summary, year_summary,
                 month_summary>>

\* create_visualizations (deadly-events script): the statistics table and the figure
CreateVisualizations ==
  /\ script = "deadly" /\ pc = "printed"
  /\ event_summary' = group_by_event_type(fatal_df)
  /\ listings' = listings \o <<listing("By Event Type", event_summary')>>
  /\ out' = out \o <<"fta_deadly_events_map.png">>
  /\ log' = log \o <<"info: Visualization saved">>
  /\ pc' = "rendered"
  /\ UNCHANGED <<script, columns, df, ny_df, fatal_df, err, location_fatalities,
                 year_summary, month_summary>>

\* row['event_type'][:20] and row.get('approximate_address', '')[:50] raise
\* TypeError on a missing value
unsubscriptable(r) == ~notna(r.event_type) \/ ~notna(r.approximate_address)

\* print_summary (basemap script)
PrintSummary ==
  /\ script = "basemap" /\ pc = "prepared"
  /\ event_summary' = sort_by_fatalities_desc(group_by_event_type(fatal_df))
  /\ fatal_df' = add_year(coerce_dates(fatal_df))
  /\ year_summary' = year_counts(fatal_df')
  /\ listings' = listings \o <<listing("By Event Type", event_summary'),
                               listing("By Year", year_summary')>>
  /\ out' = out \o <<"NYC FATAL TRANSIT INCIDENTS SUMMARY", "By Event Type",
                     "By Year", "Top 10 Deadliest Specific Locations">>
  /\ IF \E i \in 1..Len(fatal_df') : i <= 10 /\ unsubscriptable(nlargest(fatal_df', 10)[i])
       THEN err' = "TypeError" /\ pc' = "done"
       ELSE err' = err /\ pc' = "printed"
  /\ UNCHANGED <<script, columns, df, ny_df, log, location_fatalities, month_summary>>

\* create_interactive_map (basemap script)
CreateInteractiveMap ==
  /\ script = "basemap" /\ pc = "printed"
  /\ log' = log \o <<"info: Creating interactive map">>
  /\ pc' = "rendered"
  /\ UNCHANGED <<script, columns, df, ny_df, fatal_df, out, err, tables>>

\* print_temporal_summary (time-slider script)
PrintTemporalSummary ==
  /\ script = "slider" /\ pc = "prepared"
  /\ fatal_df' = add_periods(fatal_df)
  /\ year_summary' = group_by_year(fatal_df')
  /\ month_summary' = sort_by_fatalities_desc(group_by_year_month(fatal_df'))
  /\ event_summary' = sort_by_fatalities_desc(group_by_event_type(fatal_df'))
  /\ listings' = listings \o
       <<listing("Incidents by Year", year_summary'),
         listing("Top 10 Deadliest Months", head(month_summary', TopMonths)),
         listing("Incidents by Event Type", event_summary')>>
  /\ out' = out \o <<"TEMPORAL ANALYSIS OF NYC FATAL TRANSIT INCIDENTS",
                     "Incidents by Year", "Top 10 Deadliest Months",
                     "Incidents by Event Type">>
  /\ pc' = "printed"
  /\ UNCHANGED <<script, columns, df, ny_df, log, err, location_fatalities>>

\* create_time_slider_map (time-slider script)
CreateTimeSliderMap ==
  /\ script = "slider" /\ pc = "printed"
  /\ log' = log \o <<"info: Creating interactive time slider map">>
  /\ pc' = "rendered"
  /\ UNCHANGED <<script, columns, df, ny_df, fatal_df, out, err, tables>>

\* analyze_locations (analysis script)
AnalyzeLocations ==
  /\ script = "analysis" /\ pc = "filtered"
  /\ out' = out \o <<"LOCATION ANALYSIS">>
  /\ pc' = "located"
  /\ UNCHANGED <<script, columns, df, ny_df, fatal_df, log, err, tables>>

\* analyze_incident_types (analysis script)
AnalyzeIncidentTypes ==
  /\ script = "analysis" /\ pc = "located"
  /\ out' = out \o <<"INCIDENT TYPE ANALYSIS">>
  /\ pc' = "typed"
  /\ UNCHANGED <<script, columns, df, ny_df, fatal_df, log, err, tables>>

\* [col for col in df.columns if 'date' in col.lower() or 'time' ... or 'year' ...]
date_cols(cols) ==
  SelectSeq(cols, LAMBDA col :
    \/ contains(lower(col), <<"d", "a", "t", "e">>)
    \/ contains(lower(col), <<"t", "i", "m", "e">>)
    \/ contains(lower(col), <<"y", "e", "a", "r">>))

\* pd.to_datetime(df[col]) without errors='coerce' raises on an unparseable text
datetime_raises(frame) ==
  \E i \in 1..Len(frame) :
    frame[i].incident_date.k = "str" /\ parse_date(frame[i].incident_date.s) = Null

\* analyze_temporal_trends (analysis script): the yearly counts per date column;
\* the data sets here have the one date column incident_date
AnalyzeTemporalTrends ==
  /\ script = "analysis" /\ pc = "typed"
  /\ IF /\ has_column(date_cols(columns), <<"i", "n", "c", "i", "d", "e", "n", "t", "_", "d", "a", "t", "e">>)
        /\ \E i \in 1..Len(ny_df) : notna(ny_df[i].incident_date)
       THEN IF datetime_raises(ny_df)
              THEN /\ out' = out \o <<"TEMPORAL ANALYSIS", "Could not parse incident_date as date">>
                   /\ UNCHANGED <<ny_df, year_summary>>
              ELSE /\ ny_df' = coerce_dates(ny_df)
                   /\ year_summary' = year_counts(add_year(ny_df'))
                   /\ out' = out \o <<"TEMPORAL ANALYSIS", "Incidents by Incident_Date (Yearly)">>
       ELSE /\ out' = out \o <<"TEMPORAL ANALYSIS">>
            /\ UNCHANGED <<ny_df, year_summary>>
  /\ pc' = "rendered"
  /\ UNCHANGED <<script, columns, df, fatal_df, log, err, location_fatalities,
                 event_summary, month_summary, listings>>

\* the end of main(): the map is saved and the closing banner printed
Finish ==
  /\ pc = "rendered"
  /\ out' = out \o
       (CASE script = "deadly" -> <<"ANALYSIS COMPLETE">>
          [] script = "basemap" ->
               <<"fta_nyc_fatal_incidents_map.html", "MAP CREATED SUCCESSFULLY">>
          [] script = "slider" ->
               <<"fta_nyc_time_slider_map.html", "TIME SLIDER MAP CREATED SUCCESSFULLY">>
          [] script = "analysis" -> <<"ANALYSIS COMPLETE">>)
  /\ pc' = "done"
  /\ UNCHANGED <<script, columns, df, ny_df, fatal_df, log, err, tables>>

Next ==
  \/ LoadData
  \/ ExploreDataset
  \/ FilterNewYorkData
  \/ SelectFatalEvents
  \/ NormalizeEvents
  \/ PrintDeadliestLocations
  \/ CreateVisualizations
  \/ PrintSummary
  \/ CreateInteractiveMap
  \/ PrintTemporalSummary
  \/ CreateTimeSliderMap
  \/ AnalyzeLocations
  \/ AnalyzeIncidentTypes
  \/ AnalyzeTemporalTrends
  \/ Finish

Spec == Init /\ [][Next]_vars

\* the deadly-events script on the data sets of many locations
InitLocations == Init /\ script = "deadly"

NextLocations ==
  \/ LoadLocationData
  \/ FilterNewYorkData
  \/ SelectFatalEvents
  \/ NormalizeEvents
  \/ PrintDeadliestLocations
  \/ CreateVisualizations
  \/ Finish

SpecLocations == InitLocations /\ [][NextLocations]_vars

(***************************************************************************)
(* Properties.                                                             *)
(***************************************************************************)
MapScripts == {"deadly", "basemap", "slider"}

\* the j-th smallest element of a set of indices
kth(I, j) == CHOOSE i \in I : Cardinality({i2 \in I : i2 < i}) = j - 1

\* outp is exactly the rows of inp that satisfy P, in input order
IsSelection(outp, inp, P(_)) ==
  LET I == {i \in 1..Len(inp) : P(inp[i])}
  IN /\ Len(outp) = Cardinality(I)
     /\ \A j \in 1..Len(outp) : outp[j] = inp[kth(I, j)]

\* the fatality sums of a table's buckets, added up
RECURSIVE bucket_total(_)
bucket_total(b) ==
  IF b = <<>> THEN 0 ELSE b[1].total_fatalities + bucket_total(Tail(b))

HasAgencyColumn == has_column(columns, <<"a", "g", "e", "n", "c", "y">>) \/ has_column(columns, <<"a", "g", "e", "n", "c", "y", "_", "n", "a", "m", "e">>)

\* filter_new_york_data has just returned (in the analysis script main may
\* already have ended the run on an empty result)
AfterFilter ==
  \/ pc = "filtered"
  \/ script = "analysis" /\ pc = "done" /\ df # <<>> /\ ny_df = <<>>

\* the run filters on the agency column by keyword
KeywordFiltered ==
  \/ script \in MapScripts
  \/ /\ script = "analysis"
     /\ ~has_column(columns, <<"s", "t", "a", "t", "e">>)
     /\ has_column(columns, <<"a", "g", "e", "n", "c", "y", "_", "n", "a", "m", "e">>)

\* C1: every row that survives prepare_fatal_events has latitude in [-90,90]
\* and longitude in [-180,180]; in the basemap and time-slider scripts it is
\* moreover inside the NYC box, latitude in [40.4,41.0] and longitude in
\* [-74.3,-73.7], bounds inclusive.
C1_SurvivorsInRange ==
  (script \in MapScripts /\ pc = "prepared") =>
    \A i \in 1..Len(fatal_df) :
      LET lat == fatal_df[i].latitude
          lon == fatal_df[i].longitude
      IN /\ lat.k = "num" /\ lon.k = "num"
         /\ lat.n >= -90 * Scale /\ lat.n <= 90 * Scale
         /\ lon.n >= -180 * Scale /\ lon.n <= 180 * Scale
         /\ script \in {"basemap", "slider"} =>
              /\ 10 * lat.n >= 404 * Scale /\ 10 * lat.n <= 410 * Scale
              /\ 10 * lon.n >= -743 * Scale /\ 10 * lon.n <= -737 * Scale

\* C2: in every aggregation (by rounded coordinate, by event type, by year,
\* by year-month) the fatality sums of the buckets add up to the fatalities
\* of all rows handed to it, rows with a null grouping key included.
C2_SumsConserved ==
  (script \in MapScripts /\ pc \in {"printed", "rendered"}) =>
    /\ script = "deadly" =>
         bucket_total(location_fatalities) = sum_fatalities(fatal_df)
    /\ (script = "deadly" /\ pc = "rendered") =>
         bucket_total(event_summary) = sum_fatalities(fatal_df)
    /\ script = "basemap" =>
         bucket_total(event_summary) = sum_fatalities(fatal_df)
    /\ script = "slider" =>
         /\ bucket_total(year_summary) = sum_fatalities(fatal_df)
         /\ bucket_total(month_summary) = sum_fatalities(fatal_df)
         /\ bucket_total(event_summary) = sum_fatalities(fatal_df)

\* C3 as stated: in every script, filter_new_york_data keeps no row whose
\* agency name is null, and raises no error.
C3_NullAgencyExcluded ==
  (AfterFilter /\ HasAgencyColumn) =>
    /\ err = "none"
    /\ \A i \in 1..Len(ny_df) : notna(ny_df[i].agency)

\* C3 amended: where the filter matches keywords on the agency column (the
\* three map scripts; the analysis script when the data has an agency_name
\* column and no state column) it keeps no row whose agency name is null,
\* and raises no error.
C3_NullAgencyExcludedByKeywordFilter ==
  (AfterFilter /\ KeywordFiltered) =>
    /\ err = "none"
    /\ \A i \in 1..Len(ny_df) : notna(ny_df[i].agency)

\* a row with a null agency name went into a keyword filter that kept other rows
C3_Witness ==
  /\ AfterFilter /\ KeywordFiltered
  /\ \E i \in 1..Len(df) : ~notna(df[i].agency)
  /\ ny_df # <<>>

\* the agency name, upper-cased, contains one of the four keywords
C4_Matches(r) ==
  /\ r.agency.k = "str"
  /\ \E kw \in {<<"N", "E", "W", " ", "Y", "O", "R", "K">>, <<"N", "Y", "C">>, <<"M", "T", "A">>, <<"M", "E", "T", "R", "O", "P", "O", "L", "I", "T", "A", "N", " ", "T", "R", "A", "N", "S", "P", "O", "R", "T", "A", "T", "I", "O", "N">>} :
       contains(upper(r.agency.s), kw)

\* C4 as stated: in every script, filter_new_york_data returns exactly the
\* rows whose upper-cased agency name contains NEW YORK, NYC, MTA or
\* METROPOLITAN TRANSPORTATION, in input order.
C4_FilterExact ==
  (AfterFilter /\ HasAgencyColumn) => IsSelection(ny_df, df, C4_Matches)

\* C4 amended: the same, for the three map scripts, and for the analysis
\* script when the data has an agency_name column and no state column.
C4_KeywordFilterExact ==
  (AfterFilter /\ KeywordFiltered) => IsSelection(ny_df, df, C4_Matches)

\* a keyword filter kept a lower-case match and dropped another row
C4_Witness ==
  /\ AfterFilter /\ KeywordFiltered
  /\ \E i \in 1..Len(ny_df) : ny_df[i].agency = Str(<<"m", "t", "a", " ", "b", "u", "s">>)
  /\ Len(ny_df) < Len(df)

\* everything a complete run of a map script prints and writes
FullReport(s) ==
  CASE s = "deadly" ->
         <<"DEADLIEST LOCATIONS ANALYSIS", "Top 15 Deadliest Locations",
           "SINGLE DEADLIEST INCIDENTS", "fta_deadly_events_map.png",
           "ANALYSIS COMPLETE">>
    [] s = "basemap" ->
         <<"NYC FATAL TRANSIT INCIDENTS SUMMARY", "By Event Type", "By Year",
           "Top 10 Deadliest Specific Locations",
           "fta_nyc_fatal_incidents_map.html", "MAP CREATED SUCCESSFULLY">>
    [] s = "slider" ->
         <<"TEMPORAL ANALYSIS OF NYC FATAL TRANSIT INCIDENTS", "Incidents by Year",
           "Top 10 Deadliest Months", "Incidents by Event Type",
           "fta_nyc_time_slider_map.html", "TIME SLIDER MAP CREATED SUCCESSFULLY">>

\* C5: a run of a map script's main() ends with the complete report or with
\* none: it never stops after some section was printed and before the rest
\* and the output file are produced.
C5_CompleteReportOrNone ==
  (script \in MapScripts /\ pc = "done") =>
    (out = <<>> \/ (out = FullReport(script) /\ err = "none"))

\* the rows of the fatal events frame in the rounded-coordinate bucket of key k
bucket_rows(k) ==
  SelectSeq(fatal_df, LAMBDA r : <<r.lat_rounded.n, r.lon_rounded.n>> = k)

\* print_deadliest_locations has run (to its end, or to an exception)
DeadliestLocationsRan == script = "deadly" /\ out # <<>>

\* C6: when every event type (or every location type) of a rounded-coordinate
\* group is null, the by-coordinate aggregation completes without an error
\* and gives that group the label "Unknown".
C6_UnknownForNullGroup ==
  DeadliestLocationsRan =>
    /\ err = "none"
    /\ \A p \in 1..Len(location_fatalities) :
         LET b == location_fatalities[p]
             g == bucket_rows(b.key)
         IN /\ (\A i \in 1..Len(g) : ~notna(g[i].event_type)) =>
                 b.event_type = Str(<<"U", "n", "k", "n", "o", "w", "n">>)
            /\ (\A i \in 1..Len(g) : ~notna(g[i].location_type)) =>
                 b.location_type = Str(<<"U", "n", "k", "n", "o", "w", "n">>)

\* how often the text t occurs in the column x
occurrences(x, t) == Cardinality({i \in 1..Len(x) : x[i] = Str(t)})

\* t is a most frequent non-null value of the column x
IsModal(x, t) ==
  /\ occurrences(x, t) > 0
  /\ \A i \in 1..Len(x) : x[i].k = "str" => occurrences(x, x[i].s) <= occurrences(x, t)

\* the row at which the text t first occurs in the column x
first_at(x, t) == CHOOSE i \in 1..Len(x) : x[i] = Str(t) /\ \A j \in 1..(i - 1) : x[j] # Str(t)

\* t is the most frequent value that the rows of x reach first
IsFirstEncounteredModal(x, t) ==
  /\ IsModal(x, t)
  /\ \A i \in 1..Len(x) :
       (x[i].k = "str" /\ IsModal(x, x[i].s)) => first_at(x, t) <= i

\* t is the most frequent value that is smallest in sort order
IsSmallestModal(x, t) ==
  /\ IsModal(x, t)
  /\ \A i \in 1..Len(x) :
       (x[i].k = "str" /\ IsModal(x, x[i].s)) => ~str_less(x[i].s, t)

\* the by-coordinate table has been computed
LocationTableReady == script = "deadly" /\ pc \in {"printed", "rendered"}

ReporterInput == IF script = "analysis" THEN ny_df ELSE fatal_df

\* main() is about to call, or has called, a reporting function
AtReporter ==
  \/ script \in MapScripts /\ pc \in {"prepared", "printed", "rendered"}
  \/ script = "analysis" /\ pc \in {"filtered", "located", "typed", "rendered"}

IsFatal(r) == r.total_fatalities.k = "num" /\ r.total_fatalities.n > 0

\* C8 as stated: in every script each row that reaches a reporting function
\* has total fatalities >= 1, and the Fatality Selector's output is exactly
\* the input rows with total_fatalities > 0.
C8_ReportedRowsFatal ==
  /\ AtReporter =>
       \A i \in 1..Len(ReporterInput) :
         /\ ReporterInput[i].total_fatalities.k = "num"
         /\ ReporterInput[i].total_fatalities.n >= 1
  /\ pc = "selected" => IsSelection(fatal_df, ny_df, IsFatal)

\* C8 amended: in the three map scripts each row that reaches a reporting
\* function has total fatalities >= 1, and the Fatality Selector's output is
\* exactly the input rows with total_fatalities > 0; the analysis script
\* applies no Fatality Selector.
C8_MapReportedRowsFatal ==
  /\ (AtReporter /\ script \in MapScripts) =>
       \A i \in 1..Len(fatal_df) :
         /\ fatal_df[i].total_fatalities.k = "num"
         /\ fatal_df[i].total_fatalities.n >= 1
  /\ pc = "selected" => IsSelection(fatal_df, ny_df, IsFatal)

\* a map script reports on a data set from which a row without fatalities was dropped
C8_Witness ==
  /\ AtReporter /\ script \in MapScripts
  /\ \E i \in 1..Len(ny_df) : ny_df[i].total_fatalities = Num(0)
  /\ fatal_df # <<>>

\* C9: the Fatality Selector is idempotent: applied to its own output it
\* returns that output.
C9_SelectorIdempotent ==
  pc = "selected" => fatality_selector(fatal_df) = fatal_df

\* the selector has dropped some rows and kept others
C9_Witness ==
  /\ pc = "selected"
  /\ fatal_df # <<>>
  /\ Len(fatal_df) < Len(ny_df)

NormalizerReturned ==
  /\ script \in MapScripts
  /\ \/ pc = "prepared"
     \/ /\ pc = "done" /\ log # <<>>
        /\ log[Len(log)] = "error: No fatal incidents with coordinates found"

\* a text cell with a letter in it: no number
NonNumericText(v) ==
  /\ v.k = "str"
  /\ \E i \in 1..Len(v.s) : \E j \in 1..Len(LowerCase) :
       v.s[i] = LowerCase[j] \/ v.s[i] = UpperCase[j]

\* the rows of the filtered frame whose coordinates are both numeric or missing
NumericCoordinateRows ==
  {i \in 1..Len(ny_df) :
     ~NonNumericText(ny_df[i].latitude) /\ ~NonNumericText(ny_df[i].longitude)}

\* C11: a row whose latitude or longitude is a non-numeric text is dropped by
\* the Normalizer whatever its other fields hold, and does not abort the run:
\* prepare_fatal_events returns without an exception, every row of its
\* output has numeric coordinates, and no more rows survive than the input
\* has rows without a non-numeric coordinate.
C11_BadCoordinateDropped ==
  NormalizerReturned =>
    /\ err = "none"
    /\ \A j \in 1..Len(fatal_df) :
         fatal_df[j].latitude.k = "num" /\ fatal_df[j].longitude.k = "num"
    /\ Len(fatal_df) <= Cardinality(NumericCoordinateRows)

\* the Normalizer met a fatal row with latitude "abc" and one with a
\* non-numeric longitude, and other rows survived
C11_Witness ==
  /\ NormalizerReturned /\ pc = "prepared"
  /\ \E i \in 1..Len(ny_df) :
       /\ ny_df[i].latitude = Str(<<"a", "b", "c">>) /\ gt(ny_df[i].total_fatalities, 0)
  /\ \E i \in 1..Len(ny_df) :
       /\ NonNumericText(ny_df[i].longitude) /\ gt(ny_df[i].total_fatalities, 0)
\* the rows of the filtered frame whose incident date is a date
ParseableDateRows ==
  {i \in 1..Len(ny_df) :
     ny_df[i].incident_date.k = "date"
     \/ (ny_df[i].incident_date.k = "str" /\ parse_date(ny_df[i].incident_date.s) # Null)}

\* some row of the filtered frame carries a text that is no date
HasBadDate == \E i \in 1..Len(ny_df) : i \notin ParseableDateRows /\ notna(ny_df[i].incident_date)

\* the script's date-parsing function has returned
DatesParsed ==
  \/ script = "slider" /\ NormalizerReturned
  \/ script = "basemap" /\ pc = "printed"
  \/ script = "analysis" /\ pc = "rendered"

\* C12 as stated: in every script that parses dates (prepare_fatal_events of
\* the time-slider script, print_summary of the basemap script,
\* analyze_temporal_trends of the analysis script) a row with an unparseable
\* incident date is silently dropped and reaches no report, and the run is
\* not aborted: no row with a missing date is left in the reported frame, no
\* more rows are reported on than have a parseable date, and nothing is
\* printed about the failure.
C12_BadDateDropped ==
  DatesParsed =>
    /\ err = "none"
    /\ \A j \in 1..Len(ReporterInput) : ReporterInput[j].incident_date.k = "date"
    /\ Len(ReporterInput) <= Cardinality(ParseableDateRows)
    /\ \A k \in 1..Len(out) : out[k] # "Could not parse incident_date as date"

\* the incident counts of a table's buckets, added up
RECURSIVE incidents_total(_)
incidents_total(b) ==
  IF b = <<>> THEN 0 ELSE b[1].incidents + incidents_total(Tail(b))

\* C12 amended: a bad incident date never aborts a run, and what happens to
\* the row depends on the script.  Time-slider: prepare_fatal_events drops
\* the row.  Basemap: print_summary keeps the row with a missing date (it is
\* listed with the date 'Unknown' and goes on to the map) and only leaves it
\* out of the by-year counts; print_summary raises only on a row with a
\* missing event type or address.  Analysis: the conversion raises, the
\* exception is caught, 'Could not parse incident_date as date' is printed,
\* no yearly table is made for any row, and every row stays in the frame.
C12_BadDateHandling ==
  /\ (script = "slider" /\ NormalizerReturned) =>
       /\ err = "none"
       /\ \A j \in 1..Len(fatal_df) : fatal_df[j].incident_date.k = "date"
       /\ Len(fatal_df) <= Cardinality(ParseableDateRows)
  /\ (script = "basemap" /\ out # <<>>) =>
       /\ Len(fatal_df) = Len(prepare_fatal_events("basemap", ny_df))
       /\ \A j \in 1..Len(fatal_df) : fatal_df[j].incident_date.k \in {"date", "null"}
       /\ incidents_total(year_summary)
            = Cardinality({j \in 1..Len(fatal_df) : fatal_df[j].incident_date.k = "date"})
       /\ err # "none" => \E j \in 1..Len(fatal_df) : unsubscriptable(fatal_df[j])
  /\ (script = "analysis" /\ pc = "rendered") =>
       /\ err = "none"
       /\ Len(ny_df) = Len(analysis_filter_new_york_data(columns, df))
       /\ (HasBadDate /\ has_column(columns, <<"i", "n", "c", "i", "d", "e", "n", "t", "_", "d", "a", "t", "e">>)) =>
            /\ year_summary = <<>>
            /\ \E k \in 1..Len(out) : out[k] = "Could not parse incident_date as date"

\* print_summary of the basemap script completed on a frame that holds a row
\* with an unparseable date next to a row with a parseable one
C12_Witness ==
  /\ script = "basemap" /\ pc = "printed"
  /\ HasBadDate
  /\ \E j \in 1..Len(fatal_df) : fatal_df[j].incident_date = Null
  /\ year_summary # <<>>
\* the Normalizer's coordinate and date validation would keep the row
PassesValidation(r) == normalize(script, <<r>>) # <<>>

\* C13: a row with total fatalities 0 and otherwise valid fields is not
\* removed by the Normalizer's coordinate and date validation but by the
\* Fatality Selector: it is absent from the selector's output, and no row of
\* prepare_fatal_events' output has 0 fatalities.
C13_ZeroFatalityDropped ==
  /\ (script \in MapScripts /\ pc = "selected") =>
       \A i \in 1..Len(ny_df) :
         (ny_df[i].total_fatalities = Num(0) /\ PassesValidation(ny_df[i])) =>
           \A j \in 1..Len(fatal_df) : fatal_df[j] # ny_df[i]
  /\ NormalizerReturned =>
       /\ \A j \in 1..Len(fatal_df) : fatal_df[j].total_fatalities # Num(0)
       /\ Len(fatal_df) <= Cardinality({i \in 1..Len(ny_df) : IsFatal(ny_df[i])})

\* prepare_fatal_events returned other rows of a frame that held a valid row
\* with 0 fatalities
C13_Witness ==
  /\ NormalizerReturned /\ pc = "prepared"
  /\ \E i \in 1..Len(ny_df) :
       ny_df[i].total_fatalities = Num(0) /\ PassesValidation(ny_df[i])
\* load_fta_data returned None: main() has no data set
FetchFailed == pc # "start" /\ columns = <<>> /\ df = <<>>

\* C14: when the fetch fails, main() of each of the four scripts logs the
\* failure and ends the run: no filter, aggregation or rendering step runs,
\* no report is printed and no output file is written.
C14_FetchFailureEndsRun ==
  FetchFailed =>
    /\ pc = "done"
    /\ log = <<"error: Failed to load data", "error: Cannot proceed without data">>
    /\ out = <<>>
    /\ err = "none"
    /\ ny_df = <<>> /\ fatal_df = <<>>
    /\ location_fatalities = <<>> /\ event_summary = <<>>
    /\ year_summary = <<>> /\ month_summary = <<>>
    /\ listings = <<>>

\* the run of the analysis script ended on a failed fetch
C14_Witness ==
  /\ FetchFailed /\ script = "analysis" /\ pc = "done"
  /\ Len(log) = 2
\* filter_new_york_data has returned on a fetched data set
FilterRan == ~FetchFailed /\ pc \notin {"start", "loaded", "explored"}

\* the Agency Filter matched no row, or no fatal incident is among its rows
EmptyResult == FilterRan /\ \A i \in 1..Len(ny_df) : ~IsFatal(ny_df[i])

\* C15 as stated: in every script, when the Agency Filter matches no row or
\* no fatal incident remains, the run logs a warning, issues a guidance
\* message and ends without an exception, a report section or an output file.
C15_EmptyResultGuidance ==
  EmptyResult =>
    /\ err = "none"
    /\ pc \in {"filtered", "selected", "done"}
    /\ pc = "done" =>
         /\ \E k \in 1..Len(log) : log[k] = "warning: No New York data found"
         /\ out = <<"Please review the dataset columns">>
    /\ location_fatalities = <<>> /\ event_summary = <<>>
    /\ year_summary = <<>> /\ month_summary = <<>>

\* C15 amended: in the three map scripts, when the Agency Filter matches no
\* row or prepare_fatal_events leaves no fatal incident, main() logs an
\* error (no warning, no guidance message) and ends without an exception, a
\* report section or an output file, and the reporting functions run only
\* on a non-empty frame.  In the analysis script, when the filter matches no
\* row, main() logs a warning, prints the guidance message after the data
\* set overview and ends without an exception and without any analysis.
C15_EmptyResultEndsRun ==
  /\ (script \in MapScripts /\ (EmptyResult \/ (NormalizerReturned /\ fatal_df = <<>>))) =>
       /\ err = "none"
       /\ pc \in {"filtered", "selected", "done"}
       /\ pc = "done" =>
            /\ log[Len(log)] = "error: No fatal incidents with coordinates found"
            /\ \A k \in 1..Len(log) : log[k] # "warning: No New York data found"
       /\ out = <<>>
       /\ location_fatalities = <<>> /\ event_summary = <<>>
       /\ year_summary = <<>> /\ month_summary = <<>>
  /\ (script \in MapScripts /\ pc \in {"prepared", "printed", "rendered"}) =>
       fatal_df # <<>>
  /\ (script = "analysis" /\ FilterRan /\ ny_df = <<>>) =>
       /\ err = "none"
       /\ pc = "done"
       /\ log[Len(log)] = "warning: No New York data found"
       /\ out = <<"DATASET OVERVIEW", "Please review the dataset columns">>
       /\ year_summary = <<>>

\* the run of a map script ended because the Agency Filter matched no row of
\* a fetched data set
C15_Witness ==
  /\ script \in MapScripts /\ pc = "done"
  /\ df # <<>> /\ ny_df = <<>>
  /\ log[Len(log)] = "error: No fatal incidents with coordinates found"
\* the rounded-coordinate pairs of the fatal events frame: the buckets' keys
LocationKeys ==
  {<<fatal_df[i].lat_rounded.n, fatal_df[i].lon_rounded.n>> : i \in 1..Len(fatal_df)}

\* the rows of the by-coordinate table that were printed
ReportedLocations == listings[1].rows

\* C16: the by-rounded-coordinate report lists buckets in non-increasing
\* order of fatality sum and reports exactly the first min(15, number of
\* buckets) of them: each reported row is a bucket with its fatality sum, no
\* bucket is reported twice, and no unreported bucket has a greater fatality
\* sum than a reported one.
C16_TopLocationsReported ==
  LocationTableReady =>
    LET rep == ReportedLocations
        n == Cardinality(LocationKeys)
    IN /\ Len(rep) = IF n < 15 THEN n ELSE 15
       /\ \A i \in 1..Len(rep) :
            /\ rep[i].key \in LocationKeys
            /\ rep[i].total_fatalities = sum_fatalities(bucket_rows(rep[i].key))
            /\ \A j \in 1..Len(rep) :
                 /\ i < j => rep[i].total_fatalities >= rep[j].total_fatalities
                 /\ i # j => rep[i].key # rep[j].key
            /\ rep[i] = location_fatalities[i]
       /\ \A k \in LocationKeys :
            (\A i \in 1..Len(rep) : rep[i].key # k) =>
              \A i \in 1..Len(rep) :
                sum_fatalities(bucket_rows(k)) <= rep[i].total_fatalities

\* more than 15 buckets of different fatality sums: 15 were reported and a
\* bucket of fewer fatalities than the first was left out
C16_Witness ==
  /\ LocationTableReady
  /\ Cardinality(LocationKeys) > 15
  /\ Len(ReportedLocations) = 15
  /\ ReportedLocations[1].total_fatalities > ReportedLocations[15].total_fatalities
  /\ \E k \in LocationKeys :
       sum_fatalities(bucket_rows(k)) < ReportedLocations[1].total_fatalities
\* a by-event-type table among the tables shown to the user
IsEventTypeListing(l) ==
  l.title \in {"By Event Type", "Incidents by Event Type"}

\* C17: every by-event-type table shown to the user (the statistics table
\* of create_visualizations, print_summary of the basemap script,
\* print_temporal_summary of the time-slider script) lists the event types
\* in non-increasing order of fatality sum.
C17_EventTypesByFatalities ==
  \A k \in 1..Len(listings) :
    IsEventTypeListing(listings[k]) =>
      \A i \in 1..Len(listings[k].rows) : \A j \in 1..Len(listings[k].rows) :
        i < j => listings[k].rows[i].total_fatalities
                   >= listings[k].rows[j].total_fatalities
\* the year-month buckets of the fatal events frame
MonthKeys ==
  {<<fatal_df[i].year_month.y, fatal_df[i].year_month.m>> :
     i \in {j \in 1..Len(fatal_df) : fatal_df[j].year_month.k = "period"}}

\* the by-year-month tables among the tables print_temporal_summary printed
MonthListings ==
  {k \in 1..Len(listings) :
     listings[k].title \notin {"Incidents by Year", "Incidents by Event Type"}}

\* the table lists every year-month bucket once, in chronological order
IsChronologicalMonthView(l) ==
  /\ Len(l.rows) = Cardinality(MonthKeys)
  /\ \A i \in 1..Len(l.rows) : l.rows[i].key \in MonthKeys
  /\ \A i \in 1..Len(l.rows) : \A j \in 1..Len(l.rows) :
       i < j => pair_less(l.rows[i].key, l.rows[j].key)

\* the table lists year-month buckets in non-increasing order of fatality sum
IsDeadliestMonthView(l) ==
  /\ \A i \in 1..Len(l.rows) : l.rows[i].key \in MonthKeys
  /\ \A i \in 1..Len(l.rows) : \A j \in 1..Len(l.rows) :
       i < j => l.rows[i].total_fatalities >= l.rows[j].total_fatalities

\* C18: print_temporal_summary reports the by-year-month aggregation in two
\* views over the same buckets: one that lists every year-month bucket in
\* chronological order, and one that lists the buckets in non-increasing
\* order of fatality sum (the deadliest months).
C18_TwoMonthViews ==
  (script = "slider" /\ pc \in {"printed", "rendered"}) =>
    \E c \in MonthListings : \E d \in MonthListings :
      /\ c # d
      /\ IsChronologicalMonthView(listings[c])
      /\ IsDeadliestMonthView(listings[d])
\* how many rows of the fatal events frame satisfy P
rows_where(P(_)) == Cardinality({i \in 1..Len(fatal_df) : P(fatal_df[i])})

\* C19: in every aggregate bucket the reported incident count is the number
\* of input rows that fall into the bucket, also when rows have a null
\* incident_date (the column the by-coordinate aggregation counts) or a
\* null grouping column.
C19_IncidentCounts ==
  (script \in MapScripts /\ pc \in {"printed", "rendered"}) =>
    /\ \A p \in 1..Len(location_fatalities) :
         location_fatalities[p].num_incidents
           = Len(bucket_rows(location_fatalities[p].key))
    /\ \A p \in 1..Len(event_summary) :
         event_summary[p].incidents
           = rows_where(LAMBDA r : r.event_type = Str(event_summary[p].key))
    /\ \A p \in 1..Len(year_summary) :
         year_summary[p].incidents
           = rows_where(LAMBDA r : r.year = Num(year_summary[p].key))
    /\ \A p \in 1..Len(month_summary) :
         month_summary[p].incidents
           = rows_where(LAMBDA r : /\ r.year_month.k = "period"
                                   /\ r.year_month.y = month_summary[p].key[1]
                                   /\ r.year_month.m = month_summary[p].key[2])
\* the fields of a record that the Normalizer hands on
record_fields(r) ==
  <<r.agency, r.event_type, r.incident_date, r.latitude, r.longitude,
    r.total_fatalities, r.total_injuries>>

\* C20: after prepare_fatal_events has returned, no step of the run changes
\* a field value of a surviving record: the reporting functions and the map
\* and plot builders leave agency, event type, incident date, latitude,
\* longitude, fatalities and injuries of every row of the frame unchanged
\* (and drop or add no row).
C20_SurvivorsUnchanged ==
  [][(script \in MapScripts /\ pc \in {"prepared", "printed", "rendered"}) =>
       /\ Len(fatal_df') = Len(fatal_df)
       /\ \A i \in 1..Len(fatal_df) :
            record_fields(fatal_df'[i]) = record_fields(fatal_df[i])]_vars
\* the column name contains location, city, state or agency
IsLocationName(col) ==
  \E w \in {<<"l", "o", "c", "a", "t", "i", "o", "n">>, <<"c", "i", "t", "y">>, <<"s", "t", "a", "t", "e">>, <<"a", "g", "e", "n", "c", "y">>} : contains(lower(col), w)

\* the first column of the data set with such a name
FirstLocationColumn ==
  columns[CHOOSE i \in 1..Len(columns) :
            /\ IsLocationName(columns[i])
            /\ \A j \in 1..(i - 1) : ~IsLocationName(columns[j])]

\* the state, upper-cased, is NY
StateIsNY(r) == r.state.k = "str" /\ upper(r.state.s) = <<"N", "Y">>

\* the text of the first location-like column (a missing value reads "nan"),
\* upper-cased, contains NEW YORK, NY, NYC or MTA
FallbackMatches(r) ==
  LET v == cell(r, FirstLocationColumn)
      text == IF v.k = "str" THEN v.s ELSE <<"n", "a", "n">>
  IN \E kw \in {<<"N", "E", "W", " ", "Y", "O", "R", "K">>, <<"N", "Y">>, <<"N", "Y", "C">>, <<"M", "T", "A">>} : contains(upper(text), kw)

\* the fallback rule applies: neither a state nor an agency_name column,
\* but a column with a location-like name
FallbackFiltered ==
  /\ ~has_column(columns, <<"s", "t", "a", "t", "e">>) /\ ~has_column(columns, <<"a", "g", "e", "n", "c", "y", "_", "n", "a", "m", "e">>)
  /\ \E i \in 1..Len(columns) : IsLocationName(columns[i])

\* C21: filter_new_york_data of the analysis script picks one rule by fixed
\* priority: with a state column, exactly the rows whose state upper-cased
\* is NY; else with an agency_name column, exactly the rows that match the
\* four keywords; else exactly the rows whose first column named like
\* location, city, state or agency contains NEW YORK, NY, NYC or MTA; and
\* with no such column the whole input.  The result is always a
\* subsequence of the input, in input order.
C21_AnalysisFilterPriority ==
  (script = "analysis" /\ AfterFilter) =>
    IF has_column(columns, <<"s", "t", "a", "t", "e">>)
      THEN IsSelection(ny_df, df, StateIsNY)
    ELSE IF has_column(columns, <<"a", "g", "e", "n", "c", "y", "_", "n", "a", "m", "e">>)
      THEN IsSelection(ny_df, df, C4_Matches)
    ELSE IF FallbackFiltered
      THEN IsSelection(ny_df, df, FallbackMatches)
    ELSE ny_df = df

\* the fallback rule kept a row for the NY in "Albany CDTA" and dropped
\* another row
C21_Witness ==
  /\ script = "analysis" /\ AfterFilter
  /\ FallbackFiltered
  /\ \E i \in 1..Len(ny_df) : ny_df[i].agency = Str(<<"A", "l", "b", "a", "n", "y", " ", "C", "D", "T", "A">>)
  /\ Len(ny_df) < Len(df)
====
